---- MODULE Spec2Model ----
(***************************************************************************)
(* Battery simulator (PhysicsBattery, src/BatteryV3.py) and its adaptive   *)
(* correction layer (AdaptiveBMS, src/AdaptiveBMS.py) as a state machine.  *)
(*                                                                         *)
(* The program computes in double precision.  The model computes the same  *)
(* formulas in fixed point, every quantity an integer count of a unit:     *)
(*    charge        1e-5 C   (QS units per coulomb; 1 Ah = 3600 C)         *)
(*    current       1e-5 A   (charge unit per second)                      *)
(*    time          1 s      (dt is a multiple of 10 s, dt_sub = dt/10)    *)
(*    voltage       1e-5 V   (VS units per volt)                           *)
(*    resistance    1e-8 ohm (RS units per ohm)                            *)
(*    temperature   1e-3 K   (TS units per kelvin)                         *)
(*    SEI thickness 1e-16 m                                                *)
(*    power         1e-6 W                                                 *)
(*    soc, exp()    1e-6     (SS, ES)                                      *)
(* Divisions round toward minus infinity.  Terms of the source below one   *)
(* unit (the 1e-9 added to denominators) are dropped: the denominators     *)
(* they guard are at least one coulomb here.  Products are formed without  *)
(* overflow by MulDiv, so every value stays inside 32 bits.                *)
(***************************************************************************)
EXTENDS Integers, Sequences, FiniteSets, TLC

\* ------------------------------------------------------------------------
\* Fixed-point arithmetic
\* ------------------------------------------------------------------------
QS == 10^5
VS == 10^5
RS == 10^8
TS == 10^3
SS == 10^6
ES == 10^6
HS == 10^9

Abs(x) == IF x < 0 THEN -x ELSE x
Max(a, b) == IF a >= b THEN a ELSE b
Min(a, b) == IF a <= b THEN a ELSE b
\* np.clip
Clip(x, lo, hi) == Max(lo, Min(x, hi))

\* One binary digit of long multiplication: qr = <<q, r>> with x*a = q*c + r
\* becomes the pair for (2x + bit)*a.  0 <= a, 0 < c < 2^30, so that no
\* intermediate value leaves 32 bits.
MulDivBit(qr, bit, a, c) ==
  LET t  == 2 * qr[2]
      q1 == 2 * qr[1] + (IF t >= c THEN 1 ELSE 0)
      r1 == IF t >= c THEN t - c ELSE t
      u  == r1 + (a % c)
  IN IF bit = 0 THEN <<q1, r1>>
     ELSE IF u >= c THEN <<q1 + (a \div c) + 1, u - c>>
     ELSE <<q1 + (a \div c), u>>

\* Three binary digits, d in 0..7
MulDivOct(qr, d, a, c) ==
  MulDivBit(MulDivBit(MulDivBit(qr, d \div 4, a, c), (d \div 2) % 2, a, c),
            d % 2, a, c)

RECURSIVE MulDivDigits(_, _, _, _, _)
\* The digits of b from the one of weight p = 8^k down, onto the pair qr
MulDivDigits(qr, p, a, b, c) ==
  IF p = 0 THEN qr
  ELSE IF qr = <<0, 0>> /\ (b \div p) % 8 = 0
    THEN MulDivDigits(qr, p \div 8, a, b, c)
  ELSE MulDivDigits(MulDivOct(qr, (b \div p) % 8, a, c), p \div 8, a, b, c)

\* <<quotient, remainder>> of a*b by c, for a >= 0, 0 <= b < 2^30,
\* 0 < c < 2^30: directly where the product fits 32 bits
MulDivRec(a, b, c) ==
  IF b = 0 \/ a <= 2147483647 \div b THEN <<(a * b) \div c, (a * b) % c>>
  ELSE MulDivDigits(<<0, 0>>, 8^9, a, b, c)

\* floor of a negative product from the pair m of its absolute value
MulDivNeg(m) == IF m[2] = 0 THEN -m[1] ELSE -m[1] - 1

\* floor(a*b/c) for any a and b, 0 < c < 2^30
MulDiv(a, b, c) ==
  IF (a >= 0) = (b >= 0)
    THEN MulDivRec(Max(Abs(a), Abs(b)), Min(Abs(a), Abs(b)), c)[1]
  ELSE MulDivNeg(MulDivRec(Max(Abs(a), Abs(b)), Min(Abs(a), Abs(b)), c))

\* e^n in units of 1e-6, n = -14 .. 5
EPow(n) ==
  CASE n = 5 -> 148413159 [] n = 4 -> 54598150 [] n = 3 -> 20085537
    [] n = 2 -> 7389056 [] n = 1 -> 2718282 [] n = 0 -> 1000000
    [] n = -1 -> 367879 [] n = -2 -> 135335 [] n = -3 -> 49787
    [] n = -4 -> 18316 [] n = -5 -> 6738 [] n = -6 -> 2479
    [] n = -7 -> 912 [] n = -8 -> 335 [] n = -9 -> 123
    [] n = -10 -> 45 [] n = -11 -> 17 [] n = -12 -> 6
    [] n = -13 -> 2 [] n = -14 -> 1

RECURSIVE ExpSeries(_, _, _)
\* Horner form of the Taylor series of exp(f), 0 <= f < 1, from term k down:
\* acc becomes 1 + (f/k) * acc, which is at least 1
ExpSeries(acc, f, k) ==
  IF k = 0 \/ acc < ES THEN acc
  ELSE ExpSeries(ES + MulDiv(acc, f, k * ES), f, k - 1)

\* np.exp: x and the result in units of 1e-6; exp(x) = e^floor(x) * exp(frac(x))
Exp(x) ==
  IF x \div ES < -14 THEN 0
  ELSE MulDiv(ExpSeries(ES, x % ES, 10), EPow(x \div ES), ES)

\* ------------------------------------------------------------------------
\* Constants of PhysicsBattery.__init__ and AdaptiveBMS.__init__
\* ------------------------------------------------------------------------
FARADAY_CONST == 964853329      \* 96485.3329, in 1e-4 C/mol
GAS_CONST == 831446             \* 8.31446, in 1e-5 J/(mol K)
E0 == 395445                    \* 3.95445374 V
R_base_0 == 20222941            \* 0.20222941 ohm
K == 11499                      \* 0.11498637 V
A_vol == 60987                  \* 0.60987048 V
B_vol == 3187614                \* 3.18761375 per Ah, in 1e-6
c == 65                         \* 0.65, in 1e-2
k_diff_ref == 50000             \* 0.05 per second, in 1e-6
Ea_diff == 20000
M_sei == 162                    \* 0.162 kg/mol, in 1e-3
rho_sei == 1690
kappa_sei == 5                  \* 5e-6 S/m, in 1e-6
D_sol_ref == 2500000            \* 2.5e-22 m2/s, in 1e-28
Ea_sol == 50000
C_sol_bulk == 4500
A_surf == 150                   \* 0.15 m2, in 1e-3
mass == 45                      \* 0.045 kg, in 1e-3
Cp == 1100
h_conv == 5
A_cool == 8                     \* 0.008 m2, in 1e-3
T_ref == 298150                 \* 298.15 K
capacity_design_c == 729743630  \* 2.02706564 Ah * 3600
initial_soc == 943141           \* 0.94314107
initial_temp_k == 298150        \* 25.0 + 273.15
L_sei_0 == 50000000             \* 5e-9 m
learning_rate_R == 5            \* 5e-5, in 1e-5
gain_soc == 5                   \* 0.005, in 1e-3
n_substeps == 10
R_min == 1000000                \* 0.01 ohm
R_max == 200000000              \* 2.0 ohm
V_floor == 10000                \* 0.1 V
rem_floor_step == 36000         \* 1e-4 Ah
rem_floor_cal == 360000         \* 1e-3 Ah
soc_lo == 10000                 \* 0.01
soc_hi == 990000                \* 0.99
dL_max == 10000000              \* 1e-10 m/s, in 1e-17 m/s
L_floor == 10000                \* 1e-12 m
du_dt_max == 500000000          \* 0.05 V/K, in 1e-10 V/K
rule_A_current == 10000         \* 0.1 A
rule_B_current == 50000         \* 0.5 A

\* ------------------------------------------------------------------------
\* Pure helpers of PhysicsBattery
\* ------------------------------------------------------------------------
\* 1/T in 1e-9 per kelvin
InvK(T) == MulDiv(10^9, TS, T)

\* _get_arrhenius_factor: exp((Ea / GAS_CONST) * (1/T_ref - 1/temp_k))
ArrheniusFactor(Ea, T) ==
  Exp(MulDiv(InvK(T_ref) - InvK(T), Ea * 100, GAS_CONST))

\* _get_entropic_coefficient, in 1e-10 V/K
EntropicCoefficient(soc) ==
  LET s2 == MulDiv(soc, soc, SS)
      s3 == MulDiv(s2, soc, SS)
      s4 == MulDiv(s3, soc, SS)
      s5 == MulDiv(s4, soc, SS)
      du_dt == (-4) * SS + 40 * soc - 150 * s2 + 250 * s3 - 180 * s4 + 44 * s5
  IN Max(-du_dt_max, Min(du_dt, du_dt_max))

\* exp(1000 * (1/temp_k - 1/T_ref)), in 1e-6
RTempFactor(T) == Exp((1000 * (InvK(T) - InvK(T_ref))) \div 1000)

\* R_base * r_temp_factor + R_sei
RTotal(Rb, Rs, T) == MulDiv(Rb, RTempFactor(T), ES) + Rs

\* Shepherd open-circuit voltage for q_dis discharged charge, the remaining
\* capacity floored at rem_floor
Ocv(q_dis, rem_floor) ==
  E0 - MulDiv(K, capacity_design_c, Max(rem_floor, capacity_design_c - q_dis))
     + MulDiv(A_vol, Exp(-MulDiv(q_dis, B_vol, 3600 * QS)), ES)

\* current * r_total, in 1e-5 V
Drop(I, r_total) == MulDiv(r_total, I, 10^8)

\* ------------------------------------------------------------------------
\* PhysicsBattery.step
\* ------------------------------------------------------------------------
\* The clamp of a sub-step with the floor branch left out, for comparison
KibamClampNoFloor(na, nb, cap) ==
  IF na + nb > cap
    THEN [y1 |-> MulDiv(na, cap, na + nb), y2 |-> MulDiv(nb, cap, na + nb),
          raw |-> na + nb]
  ELSE [y1 |-> na, y2 |-> nb, raw |-> na + nb]

\* The clamp of a sub-step with the ceiling branch left out, for comparison
KibamClampNoCeiling(na, nb, cap) ==
  IF na + nb < 0 THEN [y1 |-> 0, y2 |-> 0, raw |-> na + nb]
  ELSE [y1 |-> na, y2 |-> nb, raw |-> na + nb]

\* The clamp that ends a sub-step, on the tanks na, nb the sub-step moved:
\* the tanks after it, and the total q_total_current before it
KibamClamp(na, nb, cap) ==
  IF na + nb > cap
    THEN [y1 |-> MulDiv(na, cap, na + nb), y2 |-> MulDiv(nb, cap, na + nb),
          raw |-> na + nb]
  ELSE IF na + nb < 0 THEN [y1 |-> 0, y2 |-> 0, raw |-> na + nb]
  ELSE [y1 |-> na, y2 |-> nb, raw |-> na + nb]

\* i_diff = k_diff_curr * (h2 - h1) * capacity_actual_c
DiffusionCurrent(ya, yb, cap, k_diff_curr) ==
  MulDiv(MulDiv(MulDiv(yb, HS, MulDiv(cap, 100 - c, 100))
                  - MulDiv(ya, HS, MulDiv(cap, c, 100)),
                k_diff_curr, ES),
         cap, HS)

\* The state evolution of a sub-step for the diffusion current i_diff
KibamMove(ya, yb, I, dt_sub, cap, i_diff) ==
  KibamClamp(ya - (I - i_diff) * dt_sub, yb - i_diff * dt_sub, cap)

\* One pass of the sub-step loop
KibamSubStep(ya, yb, I, dt_sub, cap, k_diff_curr) ==
  KibamMove(ya, yb, I, dt_sub, cap,
            DiffusionCurrent(ya, yb, cap, k_diff_curr))

RECURSIVE KibamLoop(_, _, _, _, _, _)
\* The n remaining passes of the sub-step loop, each one from the tanks of
\* the last record of log: the records of all the passes, after log[1]
KibamLoop(log, n, I, dt_sub, cap, k_diff_curr) ==
  IF n = 0 \/ log = <<>> THEN Tail(log)
  ELSE KibamLoop(Append(log, KibamSubStep(log[Len(log)].y1,
                                          log[Len(log)].y2, I, dt_sub, cap,
                                          k_diff_curr)),
                 n - 1, I, dt_sub, cap, k_diff_curr)

\* Section 3 of step with the growth and loss terms subtracted, for
\* comparison
AgingReversed(L, q_loss, T, dt) ==
  LET D_sol_curr == MulDiv(D_sol_ref, ArrheniusFactor(Ea_sol, T), ES)
      num == MulDiv(MulDiv(D_sol_curr, C_sol_bulk, 1000), FARADAY_CONST, 10^9)
      j_side == MulDiv(num, 10^7, Max(L, L_floor))
      dL_dt == MulDiv(j_side, M_sei * 1000, MulDiv(FARADAY_CONST, rho_sei, 10^4))
      L_new == L - (Max(0, Min(dL_dt, dL_max)) * dt) \div 10
      i_side_total == j_side * A_surf
  IN [L_sei |-> L_new,
      q_loss_acc |-> q_loss - MulDiv(i_side_total, dt, 10^9),
      R_sei |-> MulDiv(L_new, 10, kappa_sei * A_surf)]

\* Section 3 of step, SEI aging: [L_sei, q_loss_acc, R_sei] after dt seconds
\* at temperature T
Aging(L, q_loss, T, dt) ==
  LET D_sol_curr == MulDiv(D_sol_ref, ArrheniusFactor(Ea_sol, T), ES)
      num == MulDiv(MulDiv(D_sol_curr, C_sol_bulk, 1000), FARADAY_CONST, 10^9)
      j_side == MulDiv(num, 10^7, Max(L, L_floor))
      dL_dt == MulDiv(j_side, M_sei * 1000, MulDiv(FARADAY_CONST, rho_sei, 10^4))
      L_new == L + (Max(0, Min(dL_dt, dL_max)) * dt) \div 10
      i_side_total == j_side * A_surf
  IN [L_sei |-> L_new,
      q_loss_acc |-> q_loss + MulDiv(i_side_total, dt, 10^9),
      R_sei |-> MulDiv(L_new, 10, kappa_sei * A_surf)]

\* Sections 4 to 6 of step, for the sub-step records kib, the soc and the
\* aged SEI values age: the heat and temperature, the terminal voltage, the
\* history record and the returned pair
StepAfterAging(b, current_a, dt, temp_env_k, capacity_actual_c, kib, soc, age) ==
  LET r_total == RTotal(b.R_base, age.R_sei, b.temp_k)
      q_irr == MulDiv(MulDiv(current_a, current_a, 10^4), r_total, 10^8)
      q_rev == MulDiv(MulDiv(current_a, b.temp_k, 10^6),
                      EntropicCoefficient(soc), 10^6)
      q_diss == h_conv * A_cool * (b.temp_k - temp_env_k)
      temp_new == b.temp_k + MulDiv(q_irr + q_rev - q_diss, dt, mass * Cp)
      q_discharged == capacity_design_c
                        - (kib[Len(kib)].y1 + kib[Len(kib)].y2)
      volt_raw == Ocv(q_discharged, rem_floor_step) - Drop(current_a, r_total)
      volt_term == IF volt_raw < V_floor THEN V_floor ELSE volt_raw
      current_time == IF b.history = <<>> THEN 0
                      ELSE b.history[Len(b.history)].time + dt
  IN [b |-> [y1 |-> kib[Len(kib)].y1, y2 |-> kib[Len(kib)].y2,
             temp_k |-> temp_new, L_sei |-> age.L_sei,
             q_loss_acc |-> age.q_loss_acc, R_sei |-> age.R_sei,
             R_base |-> b.R_base,
             history |->
               Append(b.history,
                      [time |-> current_time, voltage |-> volt_term,
                       current |-> current_a, temp |-> temp_new - 273150,
                       soc |-> soc,
                       soh |-> MulDiv(capacity_actual_c, SS,
                                      capacity_design_c),
                       sei_thickness |-> age.L_sei, heat_rev |-> q_rev,
                       heat_irr |-> q_irr])],
      volt |-> volt_term, soc |-> soc, sub |-> kib]

\* The soc after the sub-steps and section 3 of step
StepAfterKibam(b, current_a, dt, temp_env_k, capacity_actual_c, kib) ==
  StepAfterAging(b, current_a, dt, temp_env_k, capacity_actual_c, kib,
                 MulDiv(kib[Len(kib)].y1 + kib[Len(kib)].y2, SS,
                        capacity_actual_c),
                 Aging(b.L_sei, b.q_loss_acc, b.temp_k, dt))

\* Section 2 of step: the sub-step loop at the capacity capacity_actual_c
StepKibam(b, current_a, dt, temp_env_k, capacity_actual_c) ==
  StepAfterKibam(b, current_a, dt, temp_env_k, capacity_actual_c,
                 KibamLoop(<<[y1 |-> b.y1, y2 |-> b.y2, raw |-> b.y1 + b.y2]>>,
                           n_substeps, current_a, dt \div n_substeps,
                           capacity_actual_c,
                           MulDiv(k_diff_ref,
                                  ArrheniusFactor(Ea_diff, b.temp_k), ES)))

\* The whole of step on battery b: the battery after it, the returned
\* (volt_term, soc) and the records of the sub-steps
StepResult(b, current_a, dt, temp_env_c) ==
  StepKibam(b, current_a, dt, temp_env_c + 273150,
            Max(capacity_design_c - b.q_loss_acc, QS))

\* ------------------------------------------------------------------------
\* PhysicsBattery.calibrate_state
\* ------------------------------------------------------------------------
\* The tanks for the total new_q_total, split by c
TanksOf(b, new_q_total) ==
  [b EXCEPT !.y1 = MulDiv(new_q_total, c, 100),
            !.y2 = new_q_total - MulDiv(new_q_total, c, 100)]

\* The tanks calibrate_state writes for a SOC (in 1e-6) on battery b
TanksAt(b, soc) ==
  TanksOf(b, MulDiv(capacity_design_c - b.q_loss_acc, soc, SS))

\* mode = 'soc'
CalibrateSocResult(b, observed_val) == TanksAt(b, Clip(observed_val, 0, SS))

\* The nested voltage_error(test_soc) of mode = 'voltage'
VoltageError(b, target_voltage, current_a, test_soc) ==
  LET ts == Clip(test_soc, soc_lo, soc_hi)
      capacity_actual_c == capacity_design_c - b.q_loss_acc
      q_discharged == MulDiv(capacity_actual_c, SS - ts, SS)
      r_total == RTotal(b.R_base, b.R_sei, b.temp_k)
  IN Ocv(q_discharged, rem_floor_cal) - Drop(current_a, r_total)
       - target_voltage

RECURSIVE Bisect(_, _, _, _, _)
\* The sign change of voltage_error between lo and hi, to one SOC unit:
\* voltage_error(lo) < 0 <= voltage_error(hi)
Bisect(b, target_voltage, current_a, lo, hi) ==
  IF hi - lo <= 1 THEN hi
  ELSE IF VoltageError(b, target_voltage, current_a, (lo + hi) \div 2) < 0
    THEN Bisect(b, target_voltage, current_a, (lo + hi) \div 2, hi)
  ELSE Bisect(b, target_voltage, current_a, lo, (lo + hi) \div 2)

\* brentq without the sign test of the two ends, for comparison
BrentqUnchecked(b, target_voltage, current_a, fa, fb) ==
  IF fa >= 0 THEN soc_lo
  ELSE IF fb <= 0 THEN soc_hi
  ELSE Bisect(b, target_voltage, current_a, soc_lo, soc_hi)

\* scipy.optimize.brentq(voltage_error, 0.01, 0.99) for the values fa, fb of
\* voltage_error at the two ends: the root, or -1 where brentq raises
\* ValueError because the two ends have the same sign.  voltage_error
\* increases with test_soc, so that a positive value at 0.01 with a negative
\* one at 0.99 does not arise.
Brentq(b, target_voltage, current_a, fa, fb) ==
  IF (fa > 0 /\ fb > 0) \/ (fa < 0 /\ fb < 0) THEN -1
  ELSE IF fa = 0 THEN soc_lo
  ELSE IF fb = 0 THEN soc_hi
  ELSE IF fa < 0 THEN Bisect(b, target_voltage, current_a, soc_lo, soc_hi)
  ELSE soc_lo

\* The try block of mode 'voltage' for the outcome of brentq
CalibrateVoltageWrite(b, calibrated_soc) ==
  [b |-> IF calibrated_soc < 0 THEN b ELSE TanksAt(b, calibrated_soc),
   root |-> calibrated_soc]

\* mode = 'voltage': the tanks are written inside the try block, after
\* brentq returned; the except branch only prints
CalibrateVoltageResult(b, target_voltage, current_a) ==
  CalibrateVoltageWrite(
    b, Brentq(b, target_voltage, current_a,
              VoltageError(b, target_voltage, current_a, soc_lo),
              VoltageError(b, target_voltage, current_a, soc_hi)))

\* ------------------------------------------------------------------------
\* AdaptiveBMS.update
\* ------------------------------------------------------------------------
\* Rule A on battery b, as step left it: the tanks scaled to the nudged total
RuleA(b, current, dt, voltage_error) ==
  IF Abs(current) > rule_A_current
    THEN LET soc_correction == gain_soc * voltage_error * dt
             total_charge_old == b.y1 + b.y2
             total_charge_new ==
               Max(0, Min(total_charge_old
                            + MulDiv(soc_correction, capacity_design_c, 10^8),
                          capacity_design_c))
         IN IF total_charge_old > 0
              THEN [b EXCEPT
                      !.y1 = MulDiv(b.y1, total_charge_new, total_charge_old),
                      !.y2 = MulDiv(b.y2, total_charge_new, total_charge_old)]
            ELSE b
  ELSE b

\* Rule B with the clamp of R_base left out, for comparison
RuleBUnclamped(b, current, voltage_error, lr) ==
  IF current > rule_B_current
    THEN [b EXCEPT !.R_base =
            b.R_base
              - MulDiv(MulDiv(voltage_error, Abs(current), 10^5), lr, 100)]
  ELSE b

\* Rule B with the current threshold left out, for comparison
RuleBAnyCurrent(b, current, voltage_error, lr) ==
  LET r_update == -MulDiv(MulDiv(voltage_error, Abs(current), 10^5), lr, 100)
  IN [b EXCEPT !.R_base = Max(R_min, Min(b.R_base + r_update, R_max))]

\* Rule B on battery b: the learned R_base; lr in 1e-5
RuleB(b, current, voltage_error, lr) ==
  IF current > rule_B_current
    THEN LET r_update ==
               -MulDiv(MulDiv(voltage_error, Abs(current), 10^5), lr, 100)
         IN [b EXCEPT !.R_base = Max(R_min, Min(b.R_base + r_update, R_max))]
  ELSE b

\* Rule A and Rule B on the outcome st of the step
UpdateCorrect(st, lr, current, dt, v_meas) ==
  [b |-> RuleB(RuleA(st.b, current, dt, v_meas - st.volt), current,
               v_meas - st.volt, lr),
   stepped |-> st.b, volt |-> st.volt, soc |-> st.soc, sub |-> st.sub]

\* The whole of update: the step, then the correction rules on what it left
UpdateResult(b, lr, current, dt, temp_env_c, v_meas) ==
  UpdateCorrect(StepResult(b, current, dt, temp_env_c), lr, current, dt,
                v_meas)

\* ------------------------------------------------------------------------
\* State
\* ------------------------------------------------------------------------
\* The fields of the PhysicsBattery, lr_r of the AdaptiveBMS wrapping it, and
\* for the last call: its inputs and outcome (call), the battery as step left
\* it before the correction rules ran (mid), the records of its sub-steps
\* (sub), and the number of calls made so far (nops)
VARIABLES y1, y2, temp_k, L_sei, q_loss_acc, R_sei, R_base, history, lr_r,
          call, mid, sub, nops

vars == <<y1, y2, temp_k, L_sei, q_loss_acc, R_sei, R_base, history, lr_r,
          call, mid, sub, nops>>

\* Number of calls explored from the initial state
MaxOps == 3

battery ==
  [y1 |-> y1, y2 |-> y2, temp_k |-> temp_k, L_sei |-> L_sei,
   q_loss_acc |-> q_loss_acc, R_sei |-> R_sei, R_base |-> R_base,
   history |-> history]

batteryNext ==
  [y1 |-> y1', y2 |-> y2', temp_k |-> temp_k', L_sei |-> L_sei',
   q_loss_acc |-> q_loss_acc', R_sei |-> R_sei', R_base |-> R_base',
   history |-> history']

Commit(b) ==
  /\ y1' = b.y1 /\ y2' = b.y2 /\ temp_k' = b.temp_k /\ L_sei' = b.L_sei
  /\ q_loss_acc' = b.q_loss_acc /\ R_sei' = b.R_sei /\ R_base' = b.R_base
  /\ history' = b.history

\* What the correction rules of update find when step has returned
Snapshot(b) ==
  [y1 |-> b.y1, y2 |-> b.y2, R_base |-> b.R_base,
   hist_len |-> Len(b.history)]

NoCall ==
  [op |-> "init", current |-> 0, dt |-> 0, v_meas |-> 0, v_est |-> 0,
   soc_est |-> 0, root |-> 0, raised |-> FALSE]

\* PhysicsBattery() with its default arguments
NewBattery ==
  LET q_total == MulDiv(capacity_design_c, initial_soc, SS)
      ny1 == MulDiv(q_total, c, 100)
  IN [y1 |-> ny1, y2 |-> q_total - ny1, temp_k |-> initial_temp_k,
      L_sei |-> L_sei_0, q_loss_acc |-> 0, R_sei |-> 0, R_base |-> R_base_0,
      history |-> <<>>]

InitFrom(b) ==
  /\ y1 = b.y1 /\ y2 = b.y2 /\ temp_k = b.temp_k /\ L_sei = b.L_sei
  /\ q_loss_acc = b.q_loss_acc /\ R_sei = b.R_sei /\ R_base = b.R_base
  /\ history = b.history
  /\ lr_r = learning_rate_R
  /\ call = NoCall
  /\ mid = Snapshot(b)
  /\ sub = <<>>
  /\ nops = 0

Init == InitFrom(NewBattery)

\* ------------------------------------------------------------------------
\* Operations
\* ------------------------------------------------------------------------
\* The state after a call that left battery b: the record rec of the call,
\* the battery m the correction rules found, the sub-step records s
Finish(b, rec, m, s) ==
  /\ Commit(b)
  /\ call' = rec
  /\ mid' = Snapshot(m)
  /\ sub' = s
  /\ nops' = nops + 1

StepDone(st, current_a, dt) ==
  Finish(st.b,
         [NoCall EXCEPT !.op = "step", !.current = current_a, !.dt = dt,
                        !.v_est = st.volt, !.soc_est = st.soc],
         st.b, st.sub)

\* battery.step(current_a, dt, temp_env_c)
Step(current_a, dt, temp_env_c) ==
  /\ nops < MaxOps
  /\ StepDone(StepResult(battery, current_a, dt, temp_env_c), current_a, dt)
  /\ UNCHANGED lr_r

UpdateDone(u, current, dt, v_meas) ==
  Finish(u.b,
         [NoCall EXCEPT !.op = "update", !.current = current, !.dt = dt,
                        !.v_meas = v_meas, !.v_est = u.volt,
                        !.soc_est = u.soc],
         u.stepped, u.sub)

\* bms.update(current, dt, temp_env_c, v_meas)
Update(current, dt, temp_env_c, v_meas) ==
  /\ nops < MaxOps
  /\ UpdateDone(UpdateResult(battery, lr_r, current, dt, temp_env_c, v_meas),
                current, dt, v_meas)
  /\ UNCHANGED lr_r

CalibrateSocDone(nb, observed_val) ==
  Finish(nb, [NoCall EXCEPT !.op = "calibrate_soc", !.v_meas = observed_val],
         nb, <<>>)

\* battery.calibrate_state(observed_val, mode='soc')
CalibrateSoc(observed_val) ==
  /\ nops < MaxOps
  /\ CalibrateSocDone(CalibrateSocResult(battery, observed_val), observed_val)
  /\ UNCHANGED lr_r

\* The except clause of calibrate_state names ValueError only
ExceptCatches(e) == e = "ValueError"

\* What brentq raised
Raised(root) == IF root < 0 THEN "ValueError" ELSE "none"

CalibrateVoltageDone(cal, target_voltage, current_a) ==
  Finish(cal.b,
         [NoCall EXCEPT !.op = "calibrate_voltage", !.current = current_a,
                        !.v_meas = target_voltage, !.root = cal.root,
                        !.raised = (Raised(cal.root) # "none"
                                    /\ ~ExceptCatches(Raised(cal.root)))],
         cal.b, <<>>)

\* battery.calibrate_state(target_voltage, mode='voltage', current_a)
CalibrateVoltage(target_voltage, current_a) ==
  /\ nops < MaxOps
  /\ CalibrateVoltageDone(
       CalibrateVoltageResult(battery, target_voltage, current_a),
       target_voltage, current_a)
  /\ UNCHANGED lr_r

\* bms.set_lr(lr)
SetLr(lr) ==
  /\ nops < MaxOps
  /\ lr_r' = lr
  /\ call' = [NoCall EXCEPT !.op = "set_lr"]
  /\ mid' = Snapshot(battery)
  /\ sub' = <<>>
  /\ nops' = nops + 1
  /\ UNCHANGED <<y1, y2, temp_k, L_sei, q_loss_acc, R_sei, R_base, history>>

\* ------------------------------------------------------------------------
\* Inputs
\* ------------------------------------------------------------------------
\* <<current_a (1e-5 A), dt (s), temp_env_c (1e-3 degree C)>>
StepInputs ==
  { <<0, 10, 25000>>, <<100000, 60, 25000>>, <<-100000, 60, 45000>>,
    <<200000, 10, 25000>> }

\* <<current, dt, temp_env_c, v_meas (1e-5 V)>>: currents on both sides of
\* the thresholds of Rule A and Rule B, measured voltages on both sides of
\* the estimate
UpdateInputs ==
  { <<100000, 60, 25000, 5000>>, <<100000, 60, 25000, 440000>>,
    <<50000, 10, 25000, 5000>>, <<10000, 10, 25000, 440000>>,
    <<-100000, 60, 45000, 440000>> }

\* observed_val of mode 'soc', in 1e-6
SocInputs == {0, 500000, 1200000}

\* <<target_voltage, current_a>> of mode 'voltage': with and without a root
VoltageInputs == { <<380000, 100000>>, <<500000, 0>> }

\* lr of set_lr, in 1e-5
LrInputs == {-100000, 0, 5, 100000}

Next ==
  \/ \E i \in StepInputs : Step(i[1], i[2], i[3])
  \/ \E i \in UpdateInputs : Update(i[1], i[2], i[3], i[4])
  \/ \E s \in SocInputs : CalibrateSoc(s)
  \/ \E i \in VoltageInputs : CalibrateVoltage(i[1], i[2])
  \/ \E lr \in LrInputs : SetLr(lr)

Spec == Init /\ [][Next]_vars

\* ------------------------------------------------------------------------
\* Calibration round trips, on new and on aged batteries
\* ------------------------------------------------------------------------
\* The battery after 51049 ticks step(0.0, 10.0, 25.0) from new, when
\* q_loss_acc has passed 1 C; of the history, the last record
AgedBattery1C ==
  [y1 |-> 447363272, y2 |-> 240887916, temp_k |-> 298150,
   L_sei |-> 116234089, q_loss_acc |-> 100001, R_sei |-> 1549788,
   R_base |-> R_base_0,
   history |-> <<[time |-> 510480, voltage |-> 425489, current |-> 0,
                  temp |-> 25000, soc |-> 943270, soh |-> 999863,
                  sei_thickness |-> 116234089, heat_rev |-> 0,
                  heat_irr |-> 0]>>]

\* The same after 662032 ticks, when q_loss_acc has passed 5 C
AgedBattery5C ==
  [y1 |-> 447363272, y2 |-> 240887916, temp_k |-> 298150,
   L_sei |-> 381166098, q_loss_acc |-> 500000, R_sei |-> 5082215,
   R_base |-> R_base_0,
   history |-> <<[time |-> 6620310, voltage |-> 425489, current |-> 0,
                  temp |-> 25000, soc |-> 943788, soh |-> 999315,
                  sei_thickness |-> 381166098, heat_rev |-> 0,
                  heat_irr |-> 0]>>]

InitCal == \E b \in {NewBattery, AgedBattery1C, AgedBattery5C} : InitFrom(b)

\* observed_val of mode 'soc' inside (0.01, 0.99)
RoundTripSocs ==
  {50000, 100000, 200000, 300000, 400000, 500000, 600000, 700000, 800000,
   900000, 950000, 980000}

\* calibrate_state in mode 'voltage' on the voltage the last step returned,
\* at the current of that step
CalibrateBack ==
  /\ call.op = "step"
  /\ CalibrateVoltage(call.v_est, call.current)

NextCal ==
  \/ \E s \in RoundTripSocs : CalibrateSoc(s)
  \/ Step(0, 10, 25000)
  \/ CalibrateBack

SpecCal == InitCal /\ [][NextCal]_vars

\* ------------------------------------------------------------------------
\* Properties
\* ------------------------------------------------------------------------
\* (y1 + y2) / (capacity_design_c - q_loss_acc), in 1e-6
Soc(b) == MulDiv(b.y1 + b.y2, SS, capacity_design_c - b.q_loss_acc)

\* C1: R_base stays within [0.01, 2.0] ohm after every call.
C1_RBaseBounded == R_min <= R_base /\ R_base <= R_max

\* An update whose Rule B raised R_base to the upper clamp
C1_Witness == call.op = "update" /\ mid.R_base < R_max /\ R_base = R_max

\* C2: after every call the total charge lies in
\* [0, capacity_design_c - q_loss_acc], q_loss_acc as the call left it.
C2_TotalWithinUsable ==
  0 <= y1 + y2 /\ y1 + y2 <= capacity_design_c - q_loss_acc

\* C3: L_sei and q_loss_acc never decrease from one call to the next, and
\* L_sei never falls below its seed 5e-9 m.
C3_AgingMonotone ==
  [][L_sei' >= L_sei /\ q_loss_acc' >= q_loss_acc /\ L_sei' >= L_sei_0]_vars

\* A step that has grown the SEI layer
C3_Witness ==
  call.op \in {"step", "update"} /\ L_sei > L_sei_0 /\ q_loss_acc > 0

\* C4: the soc every step returns lies in [0, 1], and a sub-step whose total
\* would be negative leaves both tanks at exactly 0.
C4_SocBounded ==
  /\ call.op \in {"step", "update"} => 0 <= call.soc_est /\ call.soc_est <= SS
  /\ \A i \in DOMAIN sub : sub[i].raw < 0 => sub[i].y1 = 0 /\ sub[i].y2 = 0

\* A discharging step one of whose sub-steps hit the floor
C4_Witness ==
  call.op = "step" /\ call.current > 0 /\ \E i \in DOMAIN sub : sub[i].raw < 0

\* C5: a step at zero current leaves the total charge unchanged, unless the
\* total exceeds the capacity the step clamps to, when it becomes that
\* capacity (to the rounding of one charge unit).
C5_ZeroCurrentConserves ==
  [][(call'.op = "step" /\ call'.current = 0) =>
       IF y1 + y2 <= Max(capacity_design_c - q_loss_acc, QS)
         THEN y1' + y2' = y1 + y2
       ELSE /\ y1' + y2' <= Max(capacity_design_c - q_loss_acc, QS)
            /\ y1' + y2' >= Max(capacity_design_c - q_loss_acc, QS) - 1]_vars

\* A step at zero current whose first sub-step engaged the ceiling clamp
C5_Witness ==
  /\ call.op = "step" /\ call.current = 0
  /\ sub[1].raw > sub[1].y1 + sub[1].y2

\* C6: a voltage calibration whose voltage error has the same sign at 0.01
\* and at 0.99 returns without raising and leaves the battery as it was.
C6_NoRootNoOp ==
  [][(/\ call'.op = "calibrate_voltage"
      /\ \/ /\ VoltageError(battery, call'.v_meas, call'.current, soc_lo) > 0
            /\ VoltageError(battery, call'.v_meas, call'.current, soc_hi) > 0
         \/ /\ VoltageError(battery, call'.v_meas, call'.current, soc_lo) < 0
            /\ VoltageError(battery, call'.v_meas, call'.current, soc_hi) < 0)
     => /\ ~call'.raised
        /\ UNCHANGED <<y1, y2, temp_k, L_sei, q_loss_acc, R_sei, R_base,
                       history>>]_vars

\* A voltage calibration for which brentq found no sign change
C6_Witness == call.op = "calibrate_voltage" /\ call.root < 0

\* C7: calibrating on the voltage a step returned for tanks at a SOC inside
\* (0.01, 0.99) recovers that SOC within 1e-4.
C7_RoundTrip ==
  [][(/\ call.op = "step"
      /\ call'.op = "calibrate_voltage"
      /\ call'.v_meas = call.v_est /\ call'.current = call.current
      /\ soc_lo < Soc(battery) /\ Soc(battery) < soc_hi)
     => Abs(Soc(batteryNext) - Soc(battery)) <= 100]_vars

\* C8 as stated: on an update tick with current > 0.5 A and v_meas < v_est,
\* R_base does not decrease, strictly increases while below 2.0 and stays at
\* 2.0 once there; a tick with current <= 0.5 A leaves it unchanged.
C8_AsStated ==
  [][call'.op = "update" =>
       /\ (call'.current > rule_B_current /\ call'.v_meas < call'.v_est)
            => /\ R_base' >= R_base
               /\ R_base < R_max => R_base' > R_base
               /\ R_base = R_max => R_base' = R_max
       /\ call'.current <= rule_B_current => R_base' = R_base]_vars

\* C8 with the learning rate positive: the same, for lr_r > 0.
C8_PositiveRate ==
  [][call'.op = "update" =>
       /\ (call'.current > rule_B_current /\ call'.v_meas < call'.v_est
           /\ lr_r > 0)
            => /\ R_base' >= R_base
               /\ R_base < R_max => R_base' > R_base
               /\ R_base = R_max => R_base' = R_max
       /\ call'.current <= rule_B_current => R_base' = R_base]_vars

\* An update tick above 0.5 A with v_meas < v_est that raised R_base
C8_Witness ==
  /\ call.op = "update" /\ call.current > rule_B_current
  /\ call.v_meas < call.v_est /\ lr_r > 0
  /\ R_base > mid.R_base

\* C9: the history record of an update is appended after the correction
\* rules ran, so that they find one record fewer than the call leaves.
C9_AppendAfterCorrection ==
  call.op = "update" => mid.hist_len + 1 = Len(history)

\* C10: Rule A leaves the tanks as step left them for |current| <= 0.1 A and
\* for a prior total of 0; otherwise it scales both by one factor to the
\* prior total plus gain_soc * (v_meas - v_est) * dt * usable, clamped to
\* [0, usable], usable = capacity_design_c - q_loss_acc (to two charge
\* units of rounding).
C10_RuleAUsable ==
  call.op = "update" =>
    IF Abs(call.current) <= rule_A_current \/ mid.y1 + mid.y2 = 0
      THEN y1 = mid.y1 /\ y2 = mid.y2
    ELSE /\ Abs(y1 + y2
                - Clip(mid.y1 + mid.y2
                         + MulDiv(gain_soc * (call.v_meas - call.v_est)
                                    * call.dt,
                                  capacity_design_c - q_loss_acc, 10^8),
                       0, capacity_design_c - q_loss_acc)) <= 2
         /\ Abs(y1 - MulDiv(mid.y1, y1 + y2, mid.y1 + mid.y2)) <= 1
         /\ Abs(y2 - MulDiv(mid.y2, y1 + y2, mid.y1 + mid.y2)) <= 1

====
